---- MODULE Spec2Model ----
(***************************************************************************)
(* Branching-chat: the conversation tree (tree-utils.ts), the reducer of  *)
(* the application store (store.ts) and the import dialog, as a state     *)
(* machine.  Strings of the program are strings here; a node id is the    *)
(* very string the code builds.                                           *)
(***************************************************************************)
EXTENDS Integers, Sequences, FiniteSets, TLC

VARIABLES state, storage, importError, crashed, pathView, calls

vars == <<state, storage, importError, crashed, pathView, calls>>

\* ---------------------------------------------------------------- bounds
\* longest message sequence of an imported file
MaxMsgs == 2
\* most nodes a tree grows to by branching
MaxNodes == 3
\* Date.now() takes the values 1..MaxTime
MaxTime == 1
\* most chunks a response stream delivers
MaxChunks == 2
\* most runs of handleSendToNode that wait for their response at a time
MaxCalls == 2

\* ---------------------------------------------------------------- values
\* JavaScript null / undefined
Null == "<null>"

\* the absent tree (state.tree = null) and the absent localStorage item
None == [none |-> TRUE]

\* message texts, prompts and responses
Text == {"", "hi"}

\* outcomes of Math.random().toString(36).slice(2, 6)
Suffixes == {"k3f9", "zz0a"}

\* chunks of text a response stream delivers
Chunks == {"a", "b"}

\* the streams of the model deliver a, b, a, ...: the chunk after those
\* delivered
NextChunk(delivered) == IF Len(delivered) % 2 = 0 THEN "a" ELSE "b"

\* JavaScript truthiness of a string-or-null value
Truthy(v) == v # Null /\ v # ""

ExportedMessage == [role : {"Prompt", "Response"}, say : Text]

\* sequences of messages of length 0..n
RECURSIVE SeqsUpTo(_, _)
SeqsUpTo(S, n) ==
  IF n = 0 THEN {<<>>}
  ELSE LET shorter == SeqsUpTo(S, n - 1)
       IN  shorter \cup {Append(s, x) : s \in {t \in shorter : Len(t) = n - 1}, x \in S}

\* the value of json.metadata: missing (undefined, null or another falsy
\* value), a truthy value that is not an object, or an object with a title
Metadatas ==
  {[kind |-> "missing", title |-> Null], [kind |-> "scalar", title |-> Null]}
    \cup {[kind |-> "object", title |-> "T"]}

\* the value of json.messages: an array of messages, or anything else
Messages ==
  {[isArray |-> FALSE, items |-> <<>>]}
    \cup [isArray : {TRUE}, items : SeqsUpTo(ExportedMessage, MaxMsgs)]

\* parsed JSON values handed to parseImportedJson
Jsons == [metadata : Metadatas, messages : Messages]

\* ---------------------------------------------------------------- import
InvalidFormat == "Invalid ChatGPT Exporter JSON format"

EmptyConversation == "No prompt/response pairs found in the JSON"

\* the id of the index-th imported node (index from 0)
ImportedId(index) == "node-" \o ToString(index)

\* the id createBranchNode builds from the clock and the random suffix
GeneratedId(now, rnd) == "node-" \o ToString(now) \o "-" \o rnd

ImportedIds == {ImportedId(i) : i \in 0..(MaxMsgs - 1)}

GeneratedIds == {GeneratedId(t, r) : t \in 1..MaxTime, r \in Suffixes}

\* node ids a caller may pass, in the tree or not
Ids == ImportedIds \cup GeneratedIds

\* ids that name a member of Object.prototype: nodes[id] finds the inherited
\* member when the mapping, a plain object, has no key of that name
ProtoKeys == {"constructor"}

\* the own enumerable members of such an inherited member, as { ...v } sees it
ProtoObject == [k \in {} |-> ""]

\* the node object has a childIds member
HasChildIds(node) == "childIds" \in DOMAIN node

\* the pairing loop, i from 0 as in the code (messages[i] is items[i + 1])
RECURSIVE PairLoopSkipAlways(_, _, _)
PairLoopSkipAlways(items, i, pairs) ==
  IF i >= Len(items) THEN pairs
  ELSE LET msg == items[i + 1]
           hasNext == i + 1 < Len(items)
           nextIsResponse == hasNext /\ items[i + 2].role = "Response"
           response == IF nextIsResponse THEN items[i + 2].say ELSE ""
       IN  IF msg.role = "Prompt"
           THEN PairLoopSkipAlways(items, i + 2,
                         Append(pairs, [prompt |-> msg.say, response |-> response]))
           ELSE PairLoopSkipAlways(items, i + 1, pairs)

RECURSIVE PairLoop(_, _, _)
PairLoop(items, i, pairs) ==
  IF i >= Len(items) THEN pairs
  ELSE LET msg == items[i + 1]
           hasNext == i + 1 < Len(items)
           nextIsResponse == hasNext /\ items[i + 2].role = "Response"
           response == IF nextIsResponse THEN items[i + 2].say ELSE ""
       IN  IF msg.role = "Prompt"
           THEN PairLoop(items, IF nextIsResponse THEN i + 2 ELSE i + 1,
                         Append(pairs, [prompt |-> msg.say, response |-> response]))
           ELSE PairLoop(items, i + 1, pairs)

\* pairs.forEach: one node per pair, linked to the previous one
RECURSIVE BuildChainNoLink(_, _, _, _)
BuildChainNoLink(pairs, index, prevId, nodes) ==
  IF index >= Len(pairs) THEN nodes
  ELSE LET id == ImportedId(index)
           pair == pairs[index + 1]
           node == [id |-> id, prompt |-> pair.prompt, response |-> pair.response,
                    parentId |-> prevId, childIds |-> <<>>, source |-> "imported"]
           added == (id :> node) @@ nodes
       IN  BuildChainNoLink(pairs, index + 1, id, added)

RECURSIVE BuildChain(_, _, _, _)
BuildChain(pairs, index, prevId, nodes) ==
  IF index >= Len(pairs) THEN nodes
  ELSE LET id == ImportedId(index)
           pair == pairs[index + 1]
           node == [id |-> id, prompt |-> pair.prompt, response |-> pair.response,
                    parentId |-> prevId, childIds |-> <<>>, source |-> "imported"]
           added == (id :> node) @@ nodes
           linked == IF Truthy(prevId)
                     THEN [added EXCEPT ![prevId].childIds = Append(@, id)]
                     ELSE added
       IN  BuildChain(pairs, index + 1, id, linked)

\* parseImportedJson: the thrown error, or the tree
ParseImportedJson(json) ==
  IF json.metadata.kind = "missing" \/ ~json.messages.isArray
  THEN [threw |-> TRUE, error |-> InvalidFormat]
  ELSE LET pairs == PairLoop(json.messages.items, 0, <<>>)
       IN  IF Len(pairs) = 0
           THEN [threw |-> TRUE, error |-> EmptyConversation]
           ELSE [threw |-> FALSE,
                 tree |-> [metadata |-> [title |-> IF Truthy(json.metadata.title)
                                                   THEN json.metadata.title
                                                   ELSE "Imported Conversation"],
                           nodes |-> BuildChain(pairs, 0, Null, <<>>),
                           rootId |-> ImportedId(0)]]

\* parseImportedJson on every file of the model, computed once
Parsed == [json \in Jsons |-> ParseImportedJson(json)]

\* ---------------------------------------------------------------- traversal
\* what getPathToRoot stands for when its loop never ends
Diverges == <<"<diverges>">>

\* nodes[current]?.parentId ?? null
ParentOf(current, nodes) ==
  IF current \in DOMAIN nodes /\ "parentId" \in DOMAIN nodes[current]
  THEN nodes[current].parentId
  ELSE Null

\* the loop with path.push in the place of path.unshift
RECURSIVE PathWalkPush(_, _, _, _)
PathWalkPush(current, path, nodes, fuel) ==
  IF ~Truthy(current) THEN path
  ELSE IF fuel = 0 THEN Diverges
  ELSE PathWalkPush(ParentOf(current, nodes), Append(path, current), nodes, fuel - 1)

\* the while loop of getPathToRoot; fuel counts the iterations a walk over
\* distinct nodes can take, a walk that needs more never leaves the loop
RECURSIVE PathWalk(_, _, _, _)
PathWalk(current, path, nodes, fuel) ==
  IF ~Truthy(current) THEN path
  ELSE IF fuel = 0 THEN Diverges
  ELSE PathWalk(ParentOf(current, nodes), <<current>> \o path, nodes, fuel - 1)

GetPathToRoot(nodeId, nodes) ==
  PathWalk(nodeId, <<>>, nodes, Cardinality(DOMAIN nodes) + 1)

\* node.prompt, node.response: undefined when the node has no such member
Member(node, k) == IF k \in DOMAIN node THEN node[k] ELSE Null

\* the for loop with the response pushed before the prompt
RECURSIVE HistoryLoopResponseFirst(_, _, _, _)
HistoryLoopResponseFirst(path, i, nodes, messages) ==
  IF i > Len(path) THEN [outcome |-> "ok", messages |-> messages]
  ELSE IF path[i] \notin DOMAIN nodes \cup ProtoKeys
  THEN [outcome |-> "threw", messages |-> messages]
  ELSE LET node == IF path[i] \in DOMAIN nodes THEN nodes[path[i]] ELSE ProtoObject
           prompt == Member(node, "prompt")
           response == Member(node, "response")
           first == IF Truthy(response)
                    THEN Append(messages, [role |-> "assistant", content |-> response])
                    ELSE messages
           second == IF Truthy(prompt)
                     THEN Append(first, [role |-> "user", content |-> prompt])
                     ELSE first
       IN  HistoryLoopResponseFirst(path, i + 1, nodes, second)

\* for (const id of path): threw when nodes[id] is undefined and reading its
\* prompt raises the TypeError
RECURSIVE HistoryLoop(_, _, _, _)
HistoryLoop(path, i, nodes, messages) ==
  IF i > Len(path) THEN [outcome |-> "ok", messages |-> messages]
  ELSE IF path[i] \notin DOMAIN nodes \cup ProtoKeys
  THEN [outcome |-> "threw", messages |-> messages]
  ELSE LET node == IF path[i] \in DOMAIN nodes THEN nodes[path[i]] ELSE ProtoObject
           prompt == Member(node, "prompt")
           response == Member(node, "response")
           first == IF Truthy(prompt)
                    THEN Append(messages, [role |-> "user", content |-> prompt])
                    ELSE messages
           second == IF Truthy(response)
                     THEN Append(first, [role |-> "assistant", content |-> response])
                     ELSE first
       IN  HistoryLoop(path, i + 1, nodes, second)

\* buildChatHistory: the messages, or threw, or diverges with getPathToRoot
BuildChatHistory(nodeId, nodes) ==
  LET path == GetPathToRoot(nodeId, nodes)
  IN  IF path = Diverges THEN [outcome |-> "diverges", messages |-> <<>>]
      ELSE HistoryLoop(path, 1, nodes, <<>>)

\* ---------------------------------------------------------------- branching
\* The objects a call works on.  A mapping is an object from ids to node
\* objects, a node object holds a reference to its childIds array; addresses
\* are pairs <<origin, id>>.
InputHeap(nodes) ==
  [maps |-> ("nodes" :> [id \in DOMAIN nodes |-> <<"in", id>>]),
   objs |-> [a \in {<<"in", id>> : id \in DOMAIN nodes} |->
               IF HasChildIds(nodes[a[2]])
               THEN [nodes[a[2]] EXCEPT !.childIds = a]
               ELSE nodes[a[2]]],
   arrs |-> [a \in {<<"in", id>> : id \in {i \in DOMAIN nodes : HasChildIds(nodes[i])}}
               |-> nodes[a[2]].childIds]]

\* the value of the mapping at address m: ids to nodes with their childIds
Deref(heap, m) ==
  [id \in DOMAIN heap.maps[m] |->
     LET obj == heap.objs[heap.maps[m][id]]
     IN  IF HasChildIds(obj)
         THEN [obj EXCEPT !.childIds = heap.arrs[obj.childIds]]
         ELSE obj]

\* const updated = { ...nodes }: a new mapping object, the same node objects
SpreadNodes(heap) ==
  [heap EXCEPT !.maps = ("updated" :> heap.maps["nodes"]) @@ @]

\* updated[newId] = { id: newId, prompt: "", ... }
PutNewNode(heap, parentId, newId) ==
  [maps |-> [heap.maps EXCEPT !["updated"] = (newId :> <<"new", newId>>) @@ @],
   objs |-> (<<"new", newId>> :>
               [id |-> newId, prompt |-> "", response |-> "", parentId |-> parentId,
                childIds |-> <<"new", newId>>, source |-> "generated"]) @@ heap.objs,
   arrs |-> (<<"new", newId>> :> <<>>) @@ heap.arrs]

\* a slip the code does not make: push onto the parent's own array
LinkChildInPlace(heap, parentId, newId) ==
  LET old == heap.objs[heap.maps["updated"][parentId]]
  IN  [maps |-> [heap.maps EXCEPT !["updated"][parentId] = <<"copy", parentId>>],
       objs |-> (<<"copy", parentId>> :> old) @@ heap.objs,
       arrs |-> [heap.arrs EXCEPT ![old.childIds] = Append(@, newId)]]

\* updated[parentId] = { ...updated[parentId],
\*                       childIds: [...updated[parentId].childIds, newId] }
LinkChild(heap, parentId, newId) ==
  LET old == heap.objs[heap.maps["updated"][parentId]]
  IN  [maps |-> [heap.maps EXCEPT !["updated"][parentId] = <<"copy", parentId>>],
       objs |-> (<<"copy", parentId>> :>
                   [old EXCEPT !.childIds = <<"copy", parentId>>]) @@ heap.objs,
       arrs |-> (<<"copy", parentId>> :> Append(heap.arrs[old.childIds], newId))
                  @@ heap.arrs]

\* createBranchNode: threw when reading childIds of a missing parent, or
\* spreading the childIds a parent does not have, raises the TypeError; nodes
\* and newNodeId are the returned pair; input is the value of the caller's
\* mapping once the call is over
CreateBranchNode(parentId, nodes, now, rnd) ==
  LET newId == GeneratedId(now, rnd)
      put == PutNewNode(SpreadNodes(InputHeap(nodes)), parentId, newId)
  IN  IF \/ parentId \notin DOMAIN put.maps["updated"]
         \/ ~HasChildIds(put.objs[put.maps["updated"][parentId]])
      THEN [threw |-> TRUE, nodes |-> nodes, newNodeId |-> newId,
            input |-> Deref(put, "nodes")]
      ELSE LET linked == LinkChild(put, parentId, newId)
           IN  [threw |-> FALSE, nodes |-> Deref(linked, "updated"),
                newNodeId |-> newId, input |-> Deref(linked, "nodes")]

\* ---------------------------------------------------------------- layout
\* the dimensions the TreeView lays its cards out with
NODE_W == 220

NODE_H == 140

H_GAP == 40

V_GAP == 80

\* positions.set(id, pos)
MapSet(positions, id, pos) ==
  [k \in DOMAIN positions \cup {id} |-> IF k = id THEN pos ELSE positions[k]]

\* positions and leafCounter of computeTreeLayout before layoutNode(rootId, 0);
\* visits records the calls of layoutNode that found their node
emptyLayout == [positions |-> [k \in {} |-> 0], leafCounter |-> 0, visits |-> <<>>]

\* Math.min, Math.max
MathMin(a, b) == IF a < b THEN a ELSE b

MathMax(a, b) == IF a > b THEN a ELSE b

RECURSIVE LayoutNodeSameSlot(_, _, _, _, _)
RECURSIVE LayoutChildrenSameSlot(_, _, _, _, _, _, _, _)
RECURSIVE LayoutNode(_, _, _, _, _)
RECURSIVE LayoutChildren(_, _, _, _, _, _, _, _)

\* layoutNode without leafCounter++
LayoutNodeSameSlot(id, depth, nodes, dims, acc) ==
  IF id \notin DOMAIN nodes THEN [minX |-> 0, maxX |-> 0, acc |-> acc]
  ELSE LET node == nodes[id]
           y == depth * (dims.nodeHeight + dims.vGap)
           found == [acc EXCEPT !.visits = Append(@, id)]
       IN  IF Len(node.childIds) = 0
           THEN LET x == found.leafCounter * (dims.nodeWidth + dims.hGap)
                IN  [minX |-> x, maxX |-> x,
                     acc |-> [found EXCEPT
                                !.positions = MapSet(@, id, [x |-> x, y |-> y])]]
           ELSE LET below == LayoutChildrenSameSlot(node.childIds, 1, depth, nodes,
                                                    dims, found, 0, 0)
                    x == (below.globalMin + below.globalMax) \div 2
                IN  [minX |-> below.globalMin, maxX |-> below.globalMax,
                     acc |-> [below.acc EXCEPT
                                !.positions = MapSet(@, id, [x |-> x, y |-> y])]]

LayoutChildrenSameSlot(childIds, k, depth, nodes, dims, acc, globalMin, globalMax) ==
  IF k > Len(childIds)
  THEN [globalMin |-> globalMin, globalMax |-> globalMax, acc |-> acc]
  ELSE LET child == LayoutNodeSameSlot(childIds[k], depth + 1, nodes, dims, acc)
       IN  LayoutChildrenSameSlot(childIds, k + 1, depth, nodes, dims, child.acc,
             IF k = 1 THEN child.minX ELSE MathMin(globalMin, child.minX),
             IF k = 1 THEN child.maxX ELSE MathMax(globalMax, child.maxX))

\* layoutNode(id, depth): a leaf takes the next slot, a node with children
\* is centred over the extent of its children, which are laid out first.
\* The extents are multiples of nodeWidth + hGap, which is even for the
\* dimensions in use, so the midpoint is a whole number.
LayoutNode(id, depth, nodes, dims, acc) ==
  IF id \notin DOMAIN nodes THEN [minX |-> 0, maxX |-> 0, acc |-> acc]
  ELSE LET node == nodes[id]
           y == depth * (dims.nodeHeight + dims.vGap)
           found == [acc EXCEPT !.visits = Append(@, id)]
       IN  IF Len(node.childIds) = 0
           THEN LET x == found.leafCounter * (dims.nodeWidth + dims.hGap)
                IN  [minX |-> x, maxX |-> x,
                     acc |-> [found EXCEPT
                                !.leafCounter = @ + 1,
                                !.positions = MapSet(@, id, [x |-> x, y |-> y])]]
           ELSE LET below == LayoutChildren(node.childIds, 1, depth, nodes,
                                            dims, found, 0, 0)
                    x == (below.globalMin + below.globalMax) \div 2
                IN  [minX |-> below.globalMin, maxX |-> below.globalMax,
                     acc |-> [below.acc EXCEPT
                                !.positions = MapSet(@, id, [x |-> x, y |-> y])]]

\* the for loop over node.childIds; globalMin and globalMax start at
\* Infinity and -Infinity, so the first child sets them
LayoutChildren(childIds, k, depth, nodes, dims, acc, globalMin, globalMax) ==
  IF k > Len(childIds)
  THEN [globalMin |-> globalMin, globalMax |-> globalMax, acc |-> acc]
  ELSE LET child == LayoutNode(childIds[k], depth + 1, nodes, dims, acc)
       IN  LayoutChildren(childIds, k + 1, depth, nodes, dims, child.acc,
             IF k = 1 THEN child.minX ELSE MathMin(globalMin, child.minX),
             IF k = 1 THEN child.maxX ELSE MathMax(globalMax, child.maxX))

\* computeTreeLayout(rootId, nodes, nodeWidth, nodeHeight, hGap, vGap)
ComputeTreeLayout(rootId, nodes, nodeWidth, nodeHeight, hGap, vGap) ==
  LayoutNode(rootId, 0, nodes,
             [nodeWidth |-> nodeWidth, nodeHeight |-> nodeHeight,
              hGap |-> hGap, vGap |-> vGap],
             emptyLayout).acc

\* the layout memo of the TreeView
TreeViewLayout(tree) ==
  ComputeTreeLayout(tree.rootId, tree.nodes, NODE_W, NODE_H, H_GAP, V_GAP)

\* ---------------------------------------------------------------- store
ApiProviders == {"gateway", "gemini"}

ApiKeys == {"", "AIza"}

GeminiModels == {"google/gemini-2.5-pro", "google/gemini-2.5-flash"}

defaultSettings ==
  [apiProvider |-> "gemini", geminiApiKey |-> "", geminiModel |-> "google/gemini-2.5-pro"]

initialState ==
  [tree |-> None, selectedNodeId |-> Null, activeView |-> "tree",
   settings |-> defaultSettings]

\* Partial<Settings> as the settings dialog builds them: one field each
SettingsPatches ==
  [apiProvider : ApiProviders] \cup [geminiApiKey : ApiKeys]
    \cup [geminiModel : GeminiModels]

\* Partial<ChatNode> as the callers of updateNode build them
NodePatches == [prompt : Text] \cup [response : Text]

\* { ...patch, ...settings }: the spread with its operands exchanged
MergeSettingsPriorWins(settings, patch) ==
  LET Pick(k) == IF k \in DOMAIN settings THEN settings[k] ELSE patch[k]
  IN  [apiProvider |-> Pick("apiProvider"), geminiApiKey |-> Pick("geminiApiKey"),
       geminiModel |-> Pick("geminiModel")]

\* { ...settings, ...patch }
MergeSettings(settings, patch) ==
  LET Pick(k) == IF k \in DOMAIN patch THEN patch[k] ELSE settings[k]
  IN  [apiProvider |-> Pick("apiProvider"), geminiApiKey |-> Pick("geminiApiKey"),
       geminiModel |-> Pick("geminiModel")]

\* { ...node, ...patch }
MergeNode(node, patch) ==
  [k \in DOMAIN node \cup DOMAIN patch |->
     IF k \in DOMAIN patch THEN patch[k] ELSE node[k]]

\* JSON.stringify of a settings object: its members in insertion order
JsonStringify(settings) ==
  <<<<"apiProvider", settings.apiProvider>>,
    <<"geminiApiKey", settings.geminiApiKey>>,
    <<"geminiModel", settings.geminiModel>>>>

\* JSON.parse of a stored item: the members as a Partial<Settings>
JsonParse(item) ==
  [k \in {item[i][1] : i \in 1..Len(item)} |->
     LET i == CHOOSE j \in 1..Len(item) :
                item[j][1] = k /\ \A l \in (j + 1)..Len(item) : item[l][1] # k
     IN  item[i][2]]

\* loadSettings, in the browser
LoadSettings(store) ==
  IF store # None /\ store.item # <<>>
  THEN MergeSettings(defaultSettings, JsonParse(store.item))
  ELSE defaultSettings

\* { ...state.tree.nodes, [nodeId]: { ...node, ...patch } } on the heap:
\* a new mapping object and one new node object, which keeps the reference
\* to the childIds array of the node it copies; node is the inherited
\* member when nodeId is no key of the mapping
UpdateNodes(nodes, nodeId, patch) ==
  LET heap == InputHeap(nodes)
      node == IF nodeId \in DOMAIN heap.maps["nodes"]
              THEN heap.objs[heap.maps["nodes"][nodeId]]
              ELSE ProtoObject
      merged == [maps |-> ("updated" :> ((nodeId :> <<"copy", nodeId>>)
                                            @@ heap.maps["nodes"])) @@ heap.maps,
                 objs |-> (<<"copy", nodeId>> :> MergeNode(node, patch)) @@ heap.objs,
                 arrs |-> heap.arrs]
  IN  [nodes |-> Deref(merged, "updated"), input |-> Deref(merged, "nodes")]

\* case "IMPORT_TREE" with the new nodes laid over those of the old tree
ImportTreeMergesNodes(s, action) ==
  [s EXCEPT !.tree = IF s.tree = None THEN action.tree
                     ELSE [action.tree EXCEPT !.nodes = @ @@ s.tree.nodes],
            !.selectedNodeId = action.tree.rootId,
            !.activeView = "tree"]

\* case "IMPORT_TREE" with the selection left as it was
ImportTreeKeepsSelection(s, action) ==
  [s EXCEPT !.tree = action.tree, !.activeView = "tree"]

\* case "IMPORT_TREE"
ImportTree(s, action) ==
  [s EXCEPT !.tree = action.tree,
            !.selectedNodeId = action.tree.rootId,
            !.activeView = "tree"]

\* case "BRANCH_FROM_NODE": the state returned, or threw when the exception
\* of createBranchNode leaves the reducer
BranchFromNodeCase(s, action, now, rnd) ==
  IF s.tree = None THEN [threw |-> FALSE, state |-> s]
  ELSE LET created == CreateBranchNode(action.nodeId, s.tree.nodes, now, rnd)
       IN  IF created.threw
           THEN [threw |-> TRUE, state |-> s]
           ELSE [threw |-> FALSE,
                 state |-> [s EXCEPT !.tree.nodes = created.nodes,
                                     !.selectedNodeId = created.newNodeId,
                                     !.activeView = "path"]]

\* case "UPDATE_NODE": !node holds when nodes[nodeId] is undefined, which
\* it is for an id that is neither a key nor the name of an inherited member
UpdateNodeCase(s, action) ==
  IF s.tree = None THEN s
  ELSE IF action.nodeId \notin DOMAIN s.tree.nodes /\ action.nodeId \notin ProtoKeys
  THEN s
  ELSE [s EXCEPT !.tree.nodes = UpdateNodes(@, action.nodeId, action.patch).nodes]

\* the reducer: the state it returns and the item it leaves in localStorage,
\* or threw when an exception leaves it.  env carries what the reducer reads
\* from outside: the stored item, the clock and the random number
Reducer(s, action, env) ==
  CASE action.type = "IMPORT_TREE" ->
         [threw |-> FALSE, storage |-> env.storage, state |-> ImportTree(s, action)]
    [] action.type = "SELECT_NODE" ->
         [threw |-> FALSE, storage |-> env.storage,
          state |-> [s EXCEPT !.selectedNodeId = action.nodeId]]
    [] action.type = "SET_VIEW" ->
         [threw |-> FALSE, storage |-> env.storage,
          state |-> [s EXCEPT !.activeView = action.view]]
    [] action.type = "UPDATE_SETTINGS" ->
         LET newSettings == MergeSettings(s.settings, action.settings)
         IN  [threw |-> FALSE, storage |-> [item |-> JsonStringify(newSettings)],
              state |-> [s EXCEPT !.settings = newSettings]]
    [] action.type = "BRANCH_FROM_NODE" ->
         LET out == BranchFromNodeCase(s, action, env.now, env.rnd)
         IN  [threw |-> out.threw, storage |-> env.storage, state |-> out.state]
    [] action.type = "UPDATE_NODE" ->
         [threw |-> FALSE, storage |-> env.storage, state |-> UpdateNodeCase(s, action)]
    [] action.type = "INIT_SETTINGS" ->
         [threw |-> FALSE, storage |-> env.storage,
          state |-> [s EXCEPT !.settings = LoadSettings(env.storage)]]
    [] OTHER -> [threw |-> FALSE, storage |-> env.storage, state |-> s]

\* ---------------------------------------------------------------- actions
\* useReducer applies the reducer to a dispatched action; an exception that
\* leaves the reducer leaves the render and takes the application down
Dispatch(action, now, rnd) ==
  LET out == Reducer(state, action, [storage |-> storage, now |-> now, rnd |-> rnd])
  IN  /\ ~crashed
      /\ IF out.threw
         THEN /\ crashed' = TRUE
              /\ UNCHANGED <<state, storage>>
         ELSE /\ state' = out.state
              /\ storage' = out.storage
              /\ crashed' = FALSE

\* the state of a PathView as it mounts: isStreaming, streamingText and the
\* pendingMessage ref
initialPathView == [isStreaming |-> FALSE, streamingText |-> "", pendingMessage |-> Null]

\* AppShell renders the PathView when there is a tree and the view is path
Mounted(s) == s.tree # None /\ s.activeView = "path"

\* runs of handleSendToNode whose PathView is gone: their setIsStreaming and
\* setStreamingText reach no mounted component
Orphaned(cs) == [i \in DOMAIN cs |-> [cs[i] EXCEPT !.live = FALSE]]

\* the render after a dispatch: a PathView that leaves the screen loses its
\* state, the next one starts from initialPathView
PathViewAfter ==
  IF Mounted(state) /\ ~Mounted(state')
  THEN /\ pathView' = initialPathView
       /\ calls' = Orphaned(calls)
  ELSE UNCHANGED <<pathView, calls>>

Init ==
  /\ state = initialState
  /\ storage = None
  /\ importError = Null
  /\ crashed = FALSE
  /\ pathView = initialPathView
  /\ calls = <<>>

\* ImportDialog.handleFile with the reader's onload: parse, then importTree
\* and close, or show the error
ImportFile(json) ==
  LET parsed == Parsed[json]
  IN  /\ ~crashed
      /\ IF parsed.threw
         THEN /\ importError' = parsed.error
              /\ UNCHANGED <<state, storage, crashed, pathView, calls>>
         ELSE /\ importError' = Null
              /\ Dispatch([type |-> "IMPORT_TREE", tree |-> parsed.tree], 1, "")
              /\ PathViewAfter

\* the trees parseImportedJson returns for the files of the model
ParsedTrees == {Parsed[json].tree : json \in {j \in Jsons : ~Parsed[j].threw}}

\* importTree
Import(tree) ==
  /\ Dispatch([type |-> "IMPORT_TREE", tree |-> tree], 1, "")
  /\ UNCHANGED importError
  /\ PathViewAfter

SelectNode(nodeId) ==
  /\ Dispatch([type |-> "SELECT_NODE", nodeId |-> nodeId], 1, "")
  /\ UNCHANGED importError
  /\ PathViewAfter

SetView(view) ==
  /\ Dispatch([type |-> "SET_VIEW", view |-> view], 1, "")
  /\ UNCHANGED importError
  /\ PathViewAfter

UpdateSettings(patch) ==
  /\ Dispatch([type |-> "UPDATE_SETTINGS", settings |-> patch], 1, "")
  /\ UNCHANGED importError
  /\ PathViewAfter

InitSettings ==
  /\ Dispatch([type |-> "INIT_SETTINGS"], 1, "")
  /\ UNCHANGED importError
  /\ PathViewAfter

\* the entries of all childIds arrays, one per branch a tree has kept
ChildLinks(nodes) ==
  UNION {{<<id, i>> : i \in 1..Len(nodes[id].childIds)} :
           id \in {i \in DOMAIN nodes : HasChildIds(nodes[i])}}

\* the tree, if any, is below the bounds of the model
RoomToBranch ==
  state.tree # None =>
    /\ Cardinality(DOMAIN state.tree.nodes) < MaxNodes
    /\ Cardinality(ChildLinks(state.tree.nodes)) < MaxNodes - 1

BranchFromNode(nodeId, now, rnd) ==
  /\ RoomToBranch
  /\ Dispatch([type |-> "BRANCH_FROM_NODE", nodeId |-> nodeId], now, rnd)
  /\ UNCHANGED importError
  /\ PathViewAfter

UpdateNode(nodeId, patch) ==
  /\ Dispatch([type |-> "UPDATE_NODE", nodeId |-> nodeId, patch |-> patch], 1, "")
  /\ UNCHANGED importError
  /\ PathViewAfter

\* the store under every transition, with any argument
Next ==
  \/ \E tree \in ParsedTrees : Import(tree)
  \/ \E nodeId \in Ids \cup {Null} : SelectNode(nodeId)
  \/ \E view \in {"tree", "path"} : SetView(view)
  \/ \E patch \in [apiProvider : ApiProviders] : UpdateSettings(patch)
  \/ InitSettings
  \/ \E nodeId \in Ids, now \in 1..MaxTime, rnd \in Suffixes :
       BranchFromNode(nodeId, now, rnd)
  \/ \E nodeId \in Ids, patch \in NodePatches : UpdateNode(nodeId, patch)

Spec == Init /\ [][Next]_vars

\* the tree under import, branching from a node of the tree and updates of
\* a node's prompt and response
BranchFromTreeNode(nodeId, now, rnd) ==
  /\ state.tree # None
  /\ nodeId \in DOMAIN state.tree.nodes
  /\ BranchFromNode(nodeId, now, rnd)

NextTree ==
  \/ \E json \in Jsons : ImportFile(json)
  \/ \E nodeId \in Ids, now \in 1..MaxTime, rnd \in Suffixes :
       BranchFromTreeNode(nodeId, now, rnd)
  \/ \E nodeId \in Ids, patch \in NodePatches : UpdateNode(nodeId, patch)

SpecTree == Init /\ [][NextTree]_vars

\* the import dialog alone, over trees whose texts are edited in between
NextImport ==
  \/ \E json \in Jsons : ImportFile(json)
  \/ \E nodeId \in Ids, patch \in NodePatches : UpdateNode(nodeId, patch)

SpecImport == Init /\ [][NextImport]_vars

\* imports, and updateNode with any id: a key of the mapping, another node
\* id, or the name of an inherited member
NextUpdate ==
  \/ \E json \in Jsons : ImportFile(json)
  \/ \E nodeId \in Ids \cup ProtoKeys, patch \in NodePatches : UpdateNode(nodeId, patch)

SpecUpdate == Init /\ [][NextUpdate]_vars

\* ---------------------------------------------------------------- path view
HasTreeIn(s) == s.tree # None

\* currentNode; the object without members stands for null and for an
\* inherited member, which are both no empty branch
CurrentNode(s) ==
  IF s.tree # None /\ Truthy(s.selectedNodeId)
       /\ s.selectedNodeId \in DOMAIN s.tree.nodes
  THEN s.tree.nodes[s.selectedNodeId]
  ELSE ProtoObject

\* currentNode.prompt === "" && currentNode.response === "" &&
\* currentNode.source === "generated"
IsEmptyBranch(node) ==
  /\ Member(node, "prompt") = ""
  /\ Member(node, "response") = ""
  /\ Member(node, "source") = "generated"

\* the render of the PathView never returns: getPathToRoot of the selected
\* node walks a cycle
Hung ==
  /\ Mounted(state)
  /\ Truthy(state.selectedNodeId)
  /\ GetPathToRoot(state.selectedNodeId, state.tree.nodes) = Diverges

\* the effect that sends the pending message is due; React runs it before
\* it handles the next event of the user
EffectDue ==
  /\ Mounted(state)
  /\ Truthy(pathView.pendingMessage)
  /\ IsEmptyBranch(CurrentNode(state))

\* the page handles an event of the user
UserReady == ~Hung /\ ~EffectDue

\* siblings of the PathView: the childIds of the selected node's parent
Siblings(s) ==
  LET parentId == Member(CurrentNode(s), "parentId")
  IN  IF Truthy(parentId) /\ parentId \in DOMAIN s.tree.nodes
           /\ HasChildIds(s.tree.nodes[parentId])
      THEN s.tree.nodes[parentId].childIds
      ELSE <<>>

\* handleSendToNode sending the new message without the history before it
SendToNodeNoHistory(text, targetId, pendingAfter) ==
  LET history == <<[role |-> "user", content |-> text]>>
  IN  /\ Dispatch([type |-> "UPDATE_NODE", nodeId |-> targetId,
                   patch |-> [prompt |-> text]], 1, "")
      /\ pathView' = [isStreaming |-> TRUE, streamingText |-> "",
                      pendingMessage |-> pendingAfter]
      /\ calls' = Append(calls, [targetId |-> targetId, messages |-> history,
                                 phase |-> "fetching", delivered |-> <<>>,
                                 fullText |-> "", live |-> TRUE])
      /\ UNCHANGED importError

\* handleSendToNode up to its first await: set the prompt, build the
\* history from the tree of this render, raise the streaming flag and issue
\* the request.  When buildChatHistory throws the run ends there, after the
\* prompt was set; when it never returns nothing follows.
SendToNode(text, targetId, pendingAfter) ==
  LET nodes == state.tree.nodes
      parentId == ParentOf(targetId, nodes)
      built == IF Truthy(parentId) THEN BuildChatHistory(parentId, nodes)
               ELSE [outcome |-> "ok", messages |-> <<>>]
      history == Append(built.messages, [role |-> "user", content |-> text])
  IN  /\ built.outcome # "diverges"
      /\ Dispatch([type |-> "UPDATE_NODE", nodeId |-> targetId,
                   patch |-> [prompt |-> text]], 1, "")
      /\ IF built.outcome = "threw"
         THEN /\ pathView' = [pathView EXCEPT !.pendingMessage = pendingAfter]
              /\ UNCHANGED calls
         ELSE /\ pathView' = [isStreaming |-> TRUE, streamingText |-> "",
                              pendingMessage |-> pendingAfter]
              /\ calls' = Append(calls, [targetId |-> targetId, messages |-> history,
                                         phase |-> "fetching", delivered |-> <<>>,
                                         fullText |-> "", live |-> TRUE])
      /\ UNCHANGED importError

\* handleChatSend, called by the ChatInput with the trimmed text: fill the
\* selected node when it is an empty branch, else queue the text and branch
ChatSend(text, now, rnd) ==
  /\ Mounted(state)
  /\ Truthy(state.selectedNodeId)
  /\ ~pathView.isStreaming
  /\ Len(calls) < MaxCalls
  /\ IF IsEmptyBranch(CurrentNode(state))
     THEN SendToNode(text, state.selectedNodeId, pathView.pendingMessage)
     ELSE /\ RoomToBranch
          /\ Dispatch([type |-> "BRANCH_FROM_NODE", nodeId |-> state.selectedNodeId],
                      now, rnd)
          /\ pathView' = [pathView EXCEPT !.pendingMessage = text]
          /\ UNCHANGED <<calls, importError>>

\* the effect after the render that follows a branch
PendingEffect ==
  /\ ~Hung
  /\ EffectDue
  /\ Len(calls) < MaxCalls
  /\ SendToNode(pathView.pendingMessage, state.selectedNodeId, Null)

\* calls without the i-th
RemoveCall(cs, i) == [j \in 1..(Len(cs) - 1) |-> IF j < i THEN cs[j] ELSE cs[j + 1]]

\* the end of a run of handleSendToNode that writes to the selected node
FinishToSelected(i, response) ==
  /\ Dispatch([type |-> "UPDATE_NODE", nodeId |-> state.selectedNodeId,
               patch |-> [response |-> response]], 1, "")
  /\ pathView' = IF calls[i].live
                 THEN [pathView EXCEPT !.isStreaming = FALSE, !.streamingText = ""]
                 ELSE pathView
  /\ calls' = RemoveCall(calls, i)
  /\ UNCHANGED importError

\* the end of a run of handleSendToNode without its finally block
FinishKeepsStreaming(i, response) ==
  /\ Dispatch([type |-> "UPDATE_NODE", nodeId |-> calls[i].targetId,
               patch |-> [response |-> response]], 1, "")
  /\ calls' = RemoveCall(calls, i)
  /\ UNCHANGED <<importError, pathView>>

\* the end of a run of handleSendToNode: the response is written to the
\* target, the finally block clears the streaming state of its PathView
Finish(i, response) ==
  /\ Dispatch([type |-> "UPDATE_NODE", nodeId |-> calls[i].targetId,
               patch |-> [response |-> response]], 1, "")
  /\ pathView' = IF calls[i].live
                 THEN [pathView EXCEPT !.isStreaming = FALSE, !.streamingText = ""]
                 ELSE pathView
  /\ calls' = RemoveCall(calls, i)
  /\ UNCHANGED importError

\* fetch resolves: with res.ok the run goes on to read the body, else it
\* throws and the catch block writes the error
Respond(i, ok) ==
  /\ ~Hung
  /\ i \in DOMAIN calls
  /\ calls[i].phase = "fetching"
  /\ IF ok
     THEN /\ ~crashed
          /\ calls' = [calls EXCEPT ![i].phase = "reading"]
          /\ UNCHANGED <<state, storage, importError, crashed, pathView>>
     ELSE Finish(i, "Error: Failed to get response")

\* fetch resolves with res.ok and without a body: res.body?.getReader() is
\* undefined, the run throws and the catch block writes the error
NoBody(i) ==
  /\ ~Hung
  /\ i \in DOMAIN calls
  /\ calls[i].phase = "fetching"
  /\ Finish(i, "Error: No response body")

\* reader.read() delivers a chunk, with the text prepended
ChunkPrepended(i, chunk) ==
  /\ ~Hung
  /\ ~crashed
  /\ i \in DOMAIN calls
  /\ calls[i].phase = "reading"
  /\ Len(calls[i].delivered) < MaxChunks
  /\ chunk = NextChunk(calls[i].delivered)
  /\ calls' = [calls EXCEPT ![i].delivered = Append(@, chunk),
                            ![i].fullText = chunk \o @]
  /\ pathView' = IF calls[i].live
                 THEN [pathView EXCEPT !.streamingText = calls'[i].fullText]
                 ELSE pathView
  /\ UNCHANGED <<state, storage, importError, crashed>>

\* reader.read() delivers a chunk: fullText += chunk; setStreamingText(fullText)
Chunk(i, chunk) ==
  /\ ~Hung
  /\ ~crashed
  /\ i \in DOMAIN calls
  /\ calls[i].phase = "reading"
  /\ Len(calls[i].delivered) < MaxChunks
  /\ chunk = NextChunk(calls[i].delivered)
  /\ calls' = [calls EXCEPT ![i].delivered = Append(@, chunk),
                            ![i].fullText = @ \o chunk]
  /\ pathView' = IF calls[i].live
                 THEN [pathView EXCEPT !.streamingText = calls'[i].fullText]
                 ELSE pathView
  /\ UNCHANGED <<state, storage, importError, crashed>>

\* reader.read() reports done: the completed response is saved to the node
StreamClose(i) ==
  /\ ~Hung
  /\ i \in DOMAIN calls
  /\ calls[i].phase = "reading"
  /\ Finish(i, calls[i].fullText)

\* reader.read() rejects
ReadError(i) ==
  /\ ~Hung
  /\ i \in DOMAIN calls
  /\ calls[i].phase = "reading"
  /\ Finish(i, "Error: network error")

\* a click on a node of the TreeView, or on a sibling button of the PathView
ClickNode(nodeId) ==
  /\ HasTreeIn(state)
  /\ nodeId \in DOMAIN state.tree.nodes
  /\ \/ state.activeView = "tree"
     \/ /\ Len(Siblings(state)) > 1
        /\ \E i \in 1..Len(Siblings(state)) : Siblings(state)[i] = nodeId
  /\ SelectNode(nodeId)

\* the trees the chat is run on
ChatTrees ==
  {tree \in ParsedTrees :
     tree.metadata.title = "T" /\ tree.nodes[tree.rootId].prompt = "hi"}

\* the page: imports, the view tabs, clicks on nodes, messages sent from the
\* PathView with their completions, and branches made through the store; a
\* message is sent while no request is in flight
NextChat ==
  \/ UserReady /\ \E tree \in ChatTrees : Import(tree)
  \/ UserReady /\ \E view \in {"tree", "path"} : SetView(view)
  \/ UserReady /\ \E nodeId \in Ids : ClickNode(nodeId)
  \/ UserReady /\ \E nodeId \in Ids, now \in 1..MaxTime, rnd \in Suffixes :
                    BranchFromTreeNode(nodeId, now, rnd)
  \/ UserReady /\ calls = <<>>
       /\ \E text \in Text \ {""}, now \in 1..MaxTime, rnd \in Suffixes :
            ChatSend(text, now, rnd)
  \/ calls = <<>> /\ PendingEffect
  \/ \E i \in 1..MaxCalls, ok \in BOOLEAN : Respond(i, ok)
  \/ \E i \in 1..MaxCalls : NoBody(i)
  \/ \E i \in 1..MaxCalls, chunk \in Chunks : Chunk(i, chunk)
  \/ \E i \in 1..MaxCalls : StreamClose(i)
  \/ \E i \in 1..MaxCalls : ReadError(i)

SpecChat == Init /\ [][NextChat]_vars

\* the page is loaded again: the store starts from initialState, the item
\* in localStorage stays
Reload ==
  /\ state' = initialState
  /\ importError' = Null
  /\ crashed' = FALSE
  /\ pathView' = initialPathView
  /\ calls' = <<>>
  /\ UNCHANGED storage

\* the settings dialog next to imports, selections and the view tabs, over
\* page loads
NextSettings ==
  \/ \E patch \in SettingsPatches : UpdateSettings(patch)
  \/ InitSettings
  \/ Reload
  \/ \E tree \in ChatTrees : Import(tree)
  \/ \E nodeId \in Ids \cup {Null} : SelectNode(nodeId)
  \/ \E view \in {"tree", "path"} : SetView(view)

SpecSettings == Init /\ [][NextSettings]_vars

\* the tree the messages of SpecSend are sent in: one exchange
SendTrees ==
  {tree \in ChatTrees :
     Cardinality(DOMAIN tree.nodes) = 1 /\ tree.nodes[tree.rootId].response = "hi"}

\* a step of a run of handleSendToNode after its request was issued
StreamStep ==
  \E i \in 1..MaxCalls :
    \/ \E ok \in BOOLEAN : Respond(i, ok)
    \/ NoBody(i)
    \/ \E chunk \in Chunks : Chunk(i, chunk)
    \/ StreamClose(i)
    \/ ReadError(i)

\* the page used through its controls alone: the import dialog, the view
\* tabs, clicks on nodes and the chat input, with up to MaxCalls requests
\* in flight
NextSend ==
  \/ UserReady /\ \E tree \in SendTrees : Import(tree)
  \/ UserReady /\ \E view \in {"tree", "path"} : SetView(view)
  \/ UserReady /\ \E nodeId \in Ids : ClickNode(nodeId)
  \/ UserReady /\ \E text \in Text \ {""}, now \in 1..MaxTime, rnd \in Suffixes :
                    ChatSend(text, now, rnd)
  \/ PendingEffect
  \/ StreamStep

SpecSend == Init /\ [][NextSend]_vars

\* the same page with one request at a time
NextStream ==
  \/ UserReady /\ \E tree \in SendTrees : Import(tree)
  \/ UserReady /\ \E view \in {"tree", "path"} : SetView(view)
  \/ UserReady /\ \E nodeId \in Ids : ClickNode(nodeId)
  \/ UserReady /\ calls = <<>>
       /\ \E text \in Text \ {""}, now \in 1..MaxTime, rnd \in Suffixes :
            ChatSend(text, now, rnd)
  \/ calls = <<>> /\ PendingEffect
  \/ StreamStep

\* a request that was issued is answered, and a body that is read delivers
\* chunks until it closes or fails: the promises of fetch and of
\* reader.read() settle
SpecStream == Init /\ [][NextStream]_vars /\ WF_vars(StreamStep)

\* ---------------------------------------------------------------- claims
HasTree == state.tree # None

\* x is an element of the sequence seq
InSeq(x, seq) == \E i \in 1..Len(seq) : seq[i] = x

\* the parent chain of id reaches the root without passing a node twice
RECURSIVE ChainToRoot(_, _, _)
ChainToRoot(id, tree, seen) ==
  IF id = tree.rootId THEN TRUE
  ELSE IF id \in seen \/ id \notin DOMAIN tree.nodes THEN FALSE
  ELSE ChainToRoot(tree.nodes[id].parentId, tree, seen \cup {id})

WellFormed(tree) ==
  LET nodes == tree.nodes
  IN  /\ tree.rootId \in DOMAIN nodes
      /\ {id \in DOMAIN nodes : nodes[id].parentId = Null} = {tree.rootId}
      /\ \A id \in DOMAIN nodes \ {tree.rootId} :
           /\ nodes[id].parentId \in DOMAIN nodes
           /\ InSeq(id, nodes[nodes[id].parentId].childIds)
      /\ \A id \in DOMAIN nodes : \A i \in 1..Len(nodes[id].childIds) :
           /\ nodes[id].childIds[i] \in DOMAIN nodes
           /\ nodes[nodes[id].childIds[i]].parentId = id
      /\ \A id \in DOMAIN nodes : ChainToRoot(id, tree, {})

\* C1: under import, branching from a node of the tree and prompt/response
\* updates, the current tree is always well formed: the root is a node, it is
\* the only node without a parent, parent and child links agree in both
\* directions and every parent chain reaches the root without a cycle.
C1_TreeWellFormed == HasTree => WellFormed(state.tree)

\* the number of Prompt messages of a message sequence
NumPrompts(items) == Cardinality({i \in 1..Len(items) : items[i].role = "Prompt"})

\* the position in items of the k-th Prompt (k from 0)
PromptAt(items, k) ==
  CHOOSE i \in 1..Len(items) :
    /\ items[i].role = "Prompt"
    /\ Cardinality({j \in 1..(i - 1) : items[j].role = "Prompt"}) = k

\* a file with a metadata object and a message sequence
ValidShape(json) == json.metadata.kind = "object" /\ json.messages.isArray

\* the valid files with at least one prompt
ValidFiles ==
  {json \in Jsons : ValidShape(json) /\ NumPrompts(json.messages.items) >= 1}

\* tree is the linear chain node-0 .. node-(n-1) of imported nodes
IsImportedChain(tree, n) ==
  LET nodes == tree.nodes
  IN  /\ DOMAIN nodes = {ImportedId(i) : i \in 0..(n - 1)}
      /\ tree.rootId = ImportedId(0)
      /\ \A i \in 0..(n - 1) :
           LET node == nodes[ImportedId(i)]
           IN  /\ node.id = ImportedId(i)
               /\ node.source = "imported"
               /\ node.parentId = IF i = 0 THEN Null ELSE ImportedId(i - 1)
               /\ node.childIds = IF i = n - 1 THEN <<>> ELSE <<ImportedId(i + 1)>>
      /\ GetPathToRoot(ImportedId(n - 1), nodes) = [i \in 1..n |-> ImportedId(i - 1)]

\* C2: an import of a valid file whose messages hold n >= 1 prompts installs
\* a tree of exactly the nodes node-0 .. node-(n-1), all imported, linked as
\* one chain from the root node-0, on which getPathToRoot of the last node
\* gives all n ids in order; the ids depend on nothing but n.
C2_ImportIsChain ==
  [][\A json \in ValidFiles :
       ImportFile(json)
       => /\ state'.tree # None
          /\ IsImportedChain(state'.tree, NumPrompts(json.messages.items))]_vars

C2_Witness ==
  /\ HasTree
  /\ importError = Null
  /\ state.selectedNodeId = state.tree.rootId
  /\ IsImportedChain(state.tree, 2)

\* C3: the nodes of an import are the prompts of the file in their order:
\* the k-th node carries the k-th Prompt and, as its response, the text of
\* the message right after that Prompt when it is a Response, else the empty
\* string; a Response elsewhere gives no node.
C3_PairsFollowPrompts ==
  [][\A json \in ValidFiles :
       ImportFile(json)
       => LET items == json.messages.items
              nodes == state'.tree.nodes
          IN  /\ Cardinality(DOMAIN nodes) = NumPrompts(items)
              /\ \A k \in 0..(NumPrompts(items) - 1) :
                   LET i == PromptAt(items, k)
                   IN  /\ ImportedId(k) \in DOMAIN nodes
                       /\ nodes[ImportedId(k)].prompt = items[i].say
                       /\ nodes[ImportedId(k)].response =
                            IF i < Len(items) /\ items[i + 1].role = "Response"
                            THEN items[i + 1].say
                            ELSE ""]_vars

\* a prompt followed by a prompt: two nodes, the first without a response
C3_Witness ==
  /\ HasTree
  /\ importError = Null
  /\ state.selectedNodeId = state.tree.rootId
  /\ DOMAIN state.tree.nodes = {ImportedId(0), ImportedId(1)}
  /\ state.tree.nodes[ImportedId(0)].response = ""
  /\ state.tree.nodes[ImportedId(0)].prompt = "hi"
  /\ state.tree.nodes[ImportedId(1)].response = "hi"

\* C4: an import of a file without a metadata object or without a message
\* sequence shows the format error, an import of a file whose messages give
\* no pair shows the empty-conversation error, and neither changes the state
\* of the store.
C4_BadImportRejected ==
  [][\A json \in Jsons :
       ImportFile(json)
       => /\ ~ValidShape(json)
               => importError' = InvalidFormat /\ state' = state
          /\ (ValidShape(json) /\ NumPrompts(json.messages.items) = 0)
               => importError' = EmptyConversation /\ state' = state]_vars

\* the node createBranchNode is to add under parentId
FreshNode(newId, parentId) ==
  [id |-> newId, prompt |-> "", response |-> "", parentId |-> parentId,
   childIds |-> <<>>, source |-> "generated"]

\* C5: a branch from a node of the tree adds exactly one key, the new id; the
\* new node is empty, generated, childless and has the given parent; the
\* parent's childIds are the old ones, in order, then the new id.
C5_BranchAddsOneChild ==
  [][\A parentId \in Ids, now \in 1..MaxTime, rnd \in Suffixes :
       (/\ HasTree
        /\ parentId \in DOMAIN state.tree.nodes
        /\ BranchFromNode(parentId, now, rnd))
       => LET old == state.tree.nodes
              new == state'.tree.nodes
              newId == GeneratedId(now, rnd)
          IN  /\ newId \notin DOMAIN old
              /\ DOMAIN new = DOMAIN old \cup {newId}
              /\ new[newId] = FreshNode(newId, parentId)
              /\ new[parentId].childIds = Append(old[parentId].childIds, newId)]_vars

\* C6: the id of a new branch is the id of no node of the mapping, so a
\* branch never overwrites a node.
C6_FreshNodeId ==
  [][\A parentId \in Ids, now \in 1..MaxTime, rnd \in Suffixes :
       (/\ HasTree
        /\ parentId \in DOMAIN state.tree.nodes
        /\ BranchFromNode(parentId, now, rnd))
       => GeneratedId(now, rnd) \notin DOMAIN state.tree.nodes]_vars

\* C7: createBranchNode and UPDATE_NODE leave the mapping they are given as
\* it was, keys and nodes, and in the mapping they return every node but the
\* parent and the new node (the patched node, for an update) is as before.
C7_MutationsKeepInput ==
  [][/\ \A parentId \in Ids, now \in 1..MaxTime, rnd \in Suffixes :
          (/\ HasTree
           /\ parentId \in DOMAIN state.tree.nodes
           /\ BranchFromNode(parentId, now, rnd))
          => LET old == state.tree.nodes
             IN  /\ CreateBranchNode(parentId, old, now, rnd).input = old
                 /\ \A id \in DOMAIN old \ {parentId, GeneratedId(now, rnd)} :
                      /\ id \in DOMAIN state'.tree.nodes
                      /\ state'.tree.nodes[id] = old[id]
     /\ \A nodeId \in Ids, patch \in NodePatches :
          (/\ HasTree
           /\ nodeId \in DOMAIN state.tree.nodes
           /\ UpdateNode(nodeId, patch))
          => LET old == state.tree.nodes
             IN  /\ UpdateNodes(old, nodeId, patch).input = old
                 /\ DOMAIN state'.tree.nodes = DOMAIN old
                 /\ \A id \in DOMAIN old \ {nodeId} :
                      state'.tree.nodes[id] = old[id]]_vars

\* a branch was added next to an imported child that still has its texts
C7_Witness ==
  /\ HasTree
  /\ Cardinality(DOMAIN state.tree.nodes) = 3
  /\ \E g \in GeneratedIds :
       /\ g \in DOMAIN state.tree.nodes
       /\ state.tree.nodes[ImportedId(0)].childIds = <<ImportedId(1), g>>
       /\ state.tree.nodes[g] = FreshNode(g, ImportedId(0))
  /\ state.tree.nodes[ImportedId(1)].prompt = "hi"
  /\ state.tree.nodes[ImportedId(1)].response = "hi"

\* C8: a branch whose parent id is no key of the mapping fails: the caller
\* gets the error, the mapping given and the tree of the store stay as they
\* were, no node with a dangling parentId appears.
C8_MissingParentFails ==
  [][\A parentId \in Ids, now \in 1..MaxTime, rnd \in Suffixes :
       (/\ HasTree
        /\ parentId \notin DOMAIN state.tree.nodes
        /\ BranchFromNode(parentId, now, rnd))
       => /\ CreateBranchNode(parentId, state.tree.nodes, now, rnd).threw
          /\ CreateBranchNode(parentId, state.tree.nodes, now, rnd).input
               = state.tree.nodes
          /\ state' = state]_vars

\* C9: no transition of the store raises an error, whatever its argument.
C9_TransitionsTotal == ~crashed

\* selectedNodeId is none, or the id of a node of the current tree
SelectionInTree ==
  IF HasTree
  THEN state.selectedNodeId = Null \/ state.selectedNodeId \in DOMAIN state.tree.nodes
  ELSE state.selectedNodeId = Null

\* C10: in every reachable state of the store selectedNodeId is none or the
\* id of a node of the current tree, and none while there is no tree.
C10_SelectionInTree == SelectionInTree

\* a SELECT_NODE with an id that is neither none nor in the current tree
UncheckedSelect ==
  \E nodeId \in Ids :
    /\ ~(HasTree /\ nodeId \in DOMAIN state.tree.nodes)
    /\ SelectNode(nodeId)

\* C10, amended: the selection is none or in the current tree after every
\* transition from a state where it is, but for a SELECT_NODE given an id that
\* is not in the current tree, which the reducer stores as it is.
C10_SelectionKeptInTree ==
  [][(SelectionInTree /\ ~UncheckedSelect) => SelectionInTree']_vars

\* an import has replaced a tree in which a generated node was selected
C10_Witness ==
  /\ HasTree
  /\ SelectionInTree
  /\ state.selectedNodeId \in GeneratedIds
  /\ state.activeView = "path"

\* C11: a BRANCH_FROM_NODE on a state with a tree and the id of one of its
\* nodes gives a tree with exactly one more node, the new empty generated
\* child, last in the parent's childIds; the new node is selected, the view is
\* path, metadata, rootId and settings are as before.  On a state without a
\* tree the state is returned as it is.
C11_BranchTransition ==
  [][\A nodeId \in Ids, now \in 1..MaxTime, rnd \in Suffixes :
       BranchFromNode(nodeId, now, rnd)
       => IF ~HasTree THEN state' = state
          ELSE nodeId \in DOMAIN state.tree.nodes
               => LET old == state.tree.nodes
                      new == state'.tree.nodes
                      newId == GeneratedId(now, rnd)
                  IN  /\ Cardinality(DOMAIN new) = Cardinality(DOMAIN old) + 1
                      /\ DOMAIN new = DOMAIN old \cup {newId}
                      /\ new[newId] = FreshNode(newId, nodeId)
                      /\ new[nodeId].childIds = Append(old[nodeId].childIds, newId)
                      /\ state'.selectedNodeId = newId
                      /\ state'.activeView = "path"
                      /\ state'.tree.metadata = state.tree.metadata
                      /\ state'.tree.rootId = state.tree.rootId
                      /\ state'.settings = state.settings]_vars

\* C12: an UPDATE_NODE on the id of a node of the tree replaces that node by
\* the node with the patch's fields laid over it and changes nothing else:
\* not the other nodes, the keys, rootId, metadata, selection, view or
\* settings.  With no tree, or with an id that is no key of the mapping, the
\* state stays as it was.
C12_UpdateNodeFrame ==
  [][\A nodeId \in Ids \cup ProtoKeys, patch \in NodePatches :
       UpdateNode(nodeId, patch)
       => IF HasTree /\ nodeId \in DOMAIN state.tree.nodes
          THEN LET old == state.tree.nodes
                   new == state'.tree.nodes
               IN  /\ DOMAIN new = DOMAIN old
                   /\ DOMAIN new[nodeId] = DOMAIN old[nodeId]
                   /\ \A k \in DOMAIN old[nodeId] :
                        new[nodeId][k] = IF k \in DOMAIN patch THEN patch[k]
                                         ELSE old[nodeId][k]
                   /\ \A id \in DOMAIN old \ {nodeId} : new[id] = old[id]
                   /\ state' = [state EXCEPT !.tree.nodes = new]
          ELSE state' = state]_vars

\* C13: an IMPORT_TREE, from any state, makes the given tree the current
\* tree, with no node of the tree before, selects its root and sets the view
\* to tree; the settings stay.
C13_ImportReplacesTree ==
  [][\A tree \in ParsedTrees :
       Import(tree)
       => /\ state'.tree = tree
          /\ state'.selectedNodeId = tree.rootId
          /\ state'.activeView = "tree"
          /\ state'.settings = state.settings]_vars

\* an imported tree is current, its root selected, under changed settings
C13_Witness ==
  /\ HasTree
  /\ state.tree \in ParsedTrees
  /\ Cardinality(DOMAIN state.tree.nodes) = 1
  /\ state.selectedNodeId = state.tree.rootId
  /\ state.activeView = "tree"
  /\ state.settings.apiProvider = "gateway"

\* path runs down the parent chain of tree from the root to id
IsRootPath(path, id, tree) ==
  /\ Len(path) >= 1
  /\ path[1] = tree.rootId
  /\ path[Len(path)] = id
  /\ \A i \in 1..(Len(path) - 1) :
       /\ path[i + 1] \in DOMAIN tree.nodes
       /\ tree.nodes[path[i + 1]].parentId = path[i]
  /\ \A i, j \in 1..Len(path) : path[i] = path[j] => i = j

\* C14: on a well-formed tree getPathToRoot of a node gives the ids of its
\* parent chain from the root down to the node: the root first, the node
\* last, each id the parentId of the next, no id twice.
C14_PathFromRoot ==
  (HasTree /\ WellFormed(state.tree))
    => \A id \in DOMAIN state.tree.nodes :
         IsRootPath(GetPathToRoot(id, state.tree.nodes), id, state.tree)

\* a well-formed tree three nodes deep, the deepest one a generated branch
C14_Witness ==
  /\ HasTree
  /\ WellFormed(state.tree)
  /\ \E g \in GeneratedIds :
       /\ g \in DOMAIN state.tree.nodes
       /\ GetPathToRoot(g, state.tree.nodes) = <<ImportedId(0), ImportedId(1), g>>

\* C15: getPathToRoot of an id that is no key of the mapping is the empty
\* sequence.
C15_UnknownIdEmptyPath ==
  HasTree
    => \A id \in (Ids \cup ProtoKeys) \ DOMAIN state.tree.nodes :
         GetPathToRoot(id, state.tree.nodes) = <<>>

\* C16: getPathToRoot ends on every mapping, one with a cycle of parentId
\* links included: the walk takes no more steps than there are nodes.
C16_PathWalkEnds ==
  HasTree
    => \A id \in DOMAIN state.tree.nodes :
         GetPathToRoot(id, state.tree.nodes) # Diverges

\* the texts of a root path, one prompt slot and one response slot per node
HistorySlots(path, nodes) ==
  [i \in 1..(2 * Len(path)) |->
     IF i % 2 = 1
     THEN [role |-> "user", content |-> nodes[path[(i + 1) \div 2]].prompt]
     ELSE [role |-> "assistant", content |-> nodes[path[i \div 2]].response]]

NonEmptyMessage(m) == m.content # ""

\* C17: on a well-formed tree buildChatHistory of a node gives, for the nodes
\* of its root path from the root down, the prompt as a user message when it
\* is not empty, then the response as an assistant message when it is not
\* empty, and nothing else.
C17_HistoryAlongPath ==
  (HasTree /\ WellFormed(state.tree))
    => \A id \in DOMAIN state.tree.nodes :
         LET history == BuildChatHistory(id, state.tree.nodes)
             path == GetPathToRoot(id, state.tree.nodes)
         IN  /\ history.outcome = "ok"
             /\ IsRootPath(path, id, state.tree)
             /\ history.messages
                  = SelectSeq(HistorySlots(path, state.tree.nodes), NonEmptyMessage)

\* a root with a prompt and no response above a node with a response and no
\* prompt: two messages from two nodes, a slot of each left out
C17_Witness ==
  /\ HasTree
  /\ WellFormed(state.tree)
  /\ DOMAIN state.tree.nodes = {ImportedId(0), ImportedId(1)}
  /\ state.tree.nodes[ImportedId(0)].prompt = "hi"
  /\ state.tree.nodes[ImportedId(0)].response = ""
  /\ state.tree.nodes[ImportedId(1)].prompt = ""
  /\ state.tree.nodes[ImportedId(1)].response = "hi"
  /\ BuildChatHistory(ImportedId(1), state.tree.nodes).messages
       = <<[role |-> "user", content |-> "hi"], [role |-> "assistant", content |-> "hi"]>>

\* a step that issues a completion request
IssuesRequest == Len(calls') = Len(calls) + 1

\* C18: the messages of a completion request are the chat history of the
\* target's root path at that moment: the history of the target's parent
\* (nothing when it has none), then one user message with the text sent,
\* which is the history of the target itself once its prompt is set.
C18_RequestCarriesHistory ==
  [][IssuesRequest
     => LET call == calls'[Len(calls')]
            target == call.targetId
            old == state.tree.nodes
            new == state'.tree.nodes
            parentId == old[target].parentId
            sent == [role |-> "user", content |-> new[target].prompt]
        IN  /\ target = state.selectedNodeId
            /\ new[target].prompt \in Text \ {""}
            /\ EffectDue => new[target].prompt = pathView.pendingMessage
            /\ call.messages =
                 IF parentId = Null THEN <<sent>>
                 ELSE Append(SelectSeq(HistorySlots(GetPathToRoot(parentId, old), old),
                                       NonEmptyMessage), sent)
            /\ IsRootPath(GetPathToRoot(target, new), target, state'.tree)
            /\ call.messages =
                 SelectSeq(HistorySlots(GetPathToRoot(target, new), new),
                           NonEmptyMessage)]_vars

\* a request for a branch under a root with prompt and response is waiting
\* for its answer: two messages of history, then the text sent
C18_Witness ==
  /\ Len(calls) = 1
  /\ calls[1].phase = "fetching"
  /\ calls[1].targetId \in GeneratedIds
  /\ calls[1].messages = <<[role |-> "user", content |-> "hi"],
                           [role |-> "assistant", content |-> "hi"],
                           [role |-> "user", content |-> "hi"]>>

\* the texts of a mapping's nodes are those of old
KeepsTexts(old, new) ==
  \A id \in DOMAIN old :
    /\ id \in DOMAIN new
    /\ new[id].prompt = old[id].prompt
    /\ new[id].response = old[id].response

\* C19: a message sent while the selected node is no empty generated node
\* makes exactly one new generated child of it, last in its childIds,
\* selects it and sets its prompt to the text before the request is issued;
\* a message sent while the selected node is an empty generated node sets
\* that node's prompt and makes no node.  No existing node's prompt or
\* response changes in either case.
C19_SendBranchesOrFills ==
  [][/\ \A text \in Text \ {""}, now \in 1..MaxTime, rnd \in Suffixes :
          (/\ HasTree
           /\ state.selectedNodeId \in DOMAIN state.tree.nodes
           /\ ChatSend(text, now, rnd))
          => LET old == state.tree.nodes
                 new == state'.tree.nodes
                 sel == state.selectedNodeId
                 newId == GeneratedId(now, rnd)
             IN  IF IsEmptyBranch(CurrentNode(state))
                 THEN /\ new = [old EXCEPT ![sel].prompt = text]
                      /\ state'.selectedNodeId = sel
                      /\ IssuesRequest
                 ELSE /\ newId \notin DOMAIN old
                      /\ DOMAIN new = DOMAIN old \cup {newId}
                      /\ new[newId] = FreshNode(newId, sel)
                      /\ new[sel].childIds = Append(old[sel].childIds, newId)
                      /\ state'.selectedNodeId = newId
                      /\ KeepsTexts(old, new)
                      /\ pathView'.pendingMessage = text
                      /\ ~IssuesRequest
     /\ PendingEffect
          => LET old == state.tree.nodes
                 sel == state.selectedNodeId
             IN  /\ state'.tree.nodes
                      = [old EXCEPT ![sel].prompt = pathView.pendingMessage]
                 /\ state'.selectedNodeId = sel
                 /\ IssuesRequest]_vars

\* the concatenation of the chunks of a sequence, in its order
RECURSIVE ConcatAll(_)
ConcatAll(chunks) ==
  IF chunks = <<>> THEN "" ELSE Head(chunks) \o ConcatAll(Tail(chunks))

\* C20: while the chunks of a completion arrive the tree is not touched, the
\* text so far is held by the run and the PathView alone; the response is
\* written once, when the stream closes, and is the concatenation of all
\* chunks delivered, in the order of delivery; the run is over then.
C20_ResponseWrittenAtClose ==
  [][\A i \in 1..MaxCalls :
       /\ (\E chunk \in Chunks : Chunk(i, chunk))
            => /\ state' = state
               /\ Len(calls') = Len(calls)
               /\ calls'[i].fullText = ConcatAll(calls'[i].delivered)
               /\ calls[i].live => pathView'.streamingText = ConcatAll(calls'[i].delivered)
       /\ StreamClose(i)
            => LET target == calls[i].targetId
               IN  /\ Len(calls') = Len(calls) - 1
                   /\ (HasTree /\ target \in DOMAIN state.tree.nodes)
                        => state'.tree.nodes =
                             [state.tree.nodes EXCEPT
                                ![target].response = ConcatAll(calls[i].delivered)]
                   /\ calls[i].live
                        => ~pathView'.isStreaming /\ pathView'.streamingText = ""]_vars

\* a stream of two chunks has closed: the branch holds both, in order
C20_Witness ==
  /\ HasTree
  /\ calls = <<>>
  /\ ~pathView.isStreaming
  /\ pathView.streamingText = ""
  /\ \E g \in GeneratedIds :
       /\ g \in DOMAIN state.tree.nodes
       /\ state.tree.nodes[g].prompt = "hi"
       /\ state.tree.nodes[g].response = "ab"

\* the run i of handleSendToNode ends in this step
EndsCall(i) == StreamClose(i) \/ ReadError(i) \/ Respond(i, FALSE) \/ NoBody(i)

\* C21: a completion whose PathView was left, by a change of view or by an
\* import, before it completed is abandoned: what it has streamed is
\* dropped and it never writes the response of its target.
C21_AbandonedRequestDiscarded ==
  [][\A i \in 1..MaxCalls :
       (/\ i \in DOMAIN calls
        /\ ~calls[i].live
        /\ EndsCall(i))
       => state' = state]_vars

\* the run i of handleSendToNode fails in this step
FailsCall(i) == ReadError(i) \/ Respond(i, FALSE) \/ NoBody(i)

\* the texts the catch block writes
ErrorStrings ==
  {"Error: Failed to get response", "Error: No response body", "Error: network error"}

\* C22: a request that fails (status not 2xx, no body, or a failed read)
\* is not retried: the failing step ends the run and issues no request; it
\* writes an error string to the response of its target, raises no error
\* in the store, and clears the streaming flag and the streaming text of
\* its PathView.  Whenever the flag is raised or streaming text is shown,
\* they are cleared later, whether the run succeeds or fails.
C22_FailureWritesErrorAndClears ==
  /\ [][\A i \in 1..MaxCalls :
          (i \in DOMAIN calls /\ FailsCall(i))
          => /\ calls' = RemoveCall(calls, i)
             /\ (HasTree /\ calls[i].targetId \in DOMAIN state.tree.nodes)
                => /\ HasTreeIn(state')
                   /\ calls[i].targetId \in DOMAIN state'.tree.nodes
                   /\ state'.tree.nodes[calls[i].targetId].response \in ErrorStrings
             /\ ~crashed'
             /\ importError' = importError
             /\ calls[i].live
                => ~pathView'.isStreaming /\ pathView'.streamingText = ""]_vars
  /\ (pathView.isStreaming ~> ~pathView.isStreaming)
  /\ (pathView.streamingText # "" ~> pathView.streamingText = "")

\* a failed run has written its error to a node of the tree and the chat
\* input of the PathView is enabled again
C22_Witness ==
  /\ Mounted(state)
  /\ calls = <<>>
  /\ ~pathView.isStreaming
  /\ pathView.streamingText = ""
  /\ \E id \in DOMAIN state.tree.nodes :
       Member(state.tree.nodes[id], "response") = "Error: No response body"

\* C23: UpdateSettings(patch) yields the prior settings with every field
\* of the patch overriding, writes exactly these settings to the store and
\* leaves tree, selectedNodeId and activeView unchanged; the stored
\* settings then equal the settings of the state, and an initialization
\* from the store yields the settings that were stored.
C23_SettingsMergedAndPersisted ==
  [][/\ \A patch \in SettingsPatches :
          UpdateSettings(patch)
          => /\ \A k \in DOMAIN state.settings :
                  state'.settings[k] =
                    IF k \in DOMAIN patch THEN patch[k] ELSE state.settings[k]
             /\ DOMAIN state'.settings = DOMAIN state.settings
             /\ storage' # None
             /\ JsonParse(storage'.item) = state'.settings
             /\ LoadSettings(storage') = state'.settings
             /\ state'.tree = state.tree
             /\ state'.selectedNodeId = state.selectedNodeId
             /\ state'.activeView = state.activeView
     /\ (InitSettings /\ storage # None)
          => /\ state'.settings = JsonParse(storage.item)
             /\ storage' = storage]_vars

\* settings changed in two fields by UpdateSettings are stored and are the
\* settings of the state, while a tree is shown in the path view
C23_Witness ==
  /\ storage # None
  /\ state.settings = JsonParse(storage.item)
  /\ state.settings.apiProvider = "gateway"
  /\ state.settings.geminiApiKey = "AIza"
  /\ HasTree
  /\ state.activeView = "path"

\* the tree of the state can be laid out: it is well formed
Laid == HasTree /\ WellFormed(state.tree)

\* the number of calls of layoutNode that found the node id
Visits(out, id) == Cardinality({i \in 1..Len(out.visits) : out.visits[i] = id})

\* nodes without the entry of id
Without(nodes, id) == [k \in DOMAIN nodes \ {id} |-> nodes[k]]

\* C24: for every well-formed tree computeTreeLayout visits each node
\* exactly once and returns one position for each node id of the tree and
\* for nothing else; a child id that is no key of the mapping is not
\* recursed into and gets no position.
C24_LayoutVisitsEachNodeOnce ==
  Laid =>
    LET nodes == state.tree.nodes
        out == TreeViewLayout(state.tree)
    IN  /\ \A id \in DOMAIN nodes : Visits(out, id) = 1
        /\ DOMAIN out.positions = DOMAIN nodes
        /\ \A id \in DOMAIN nodes \ {state.tree.rootId} :
             LET pruned == ComputeTreeLayout(state.tree.rootId, Without(nodes, id),
                                             NODE_W, NODE_H, H_GAP, V_GAP)
             IN  /\ id \notin DOMAIN pruned.positions
                 /\ Visits(pruned, id) = 0

\* the depth of a node: the number of steps from the root to it
DepthOf(id, nodes) == Len(GetPathToRoot(id, nodes)) - 1

\* the leaves below id in depth-first order, children in childIds order
RECURSIVE LeavesBelow(_, _)
LeavesBelow(id, nodes) ==
  IF Len(nodes[id].childIds) = 0 THEN <<id>>
  ELSE LET RECURSIVE Over(_)
           Over(k) == IF k > Len(nodes[id].childIds) THEN <<>>
                      ELSE LeavesBelow(nodes[id].childIds[k], nodes) \o Over(k + 1)
       IN  Over(1)

\* C25: in the layout of a well-formed tree every node has
\* y = depth * (nodeHeight + vGap), the root at depth 0; the k-th leaf in
\* depth-first order (k from 0) has x = k * (nodeWidth + hGap); a node
\* with children has x at the midpoint of the least and the greatest x of
\* the leaves of its subtree.
C25_LayoutCoordinates ==
  Laid =>
    LET nodes == state.tree.nodes
        pos == TreeViewLayout(state.tree).positions
        leaves == LeavesBelow(state.tree.rootId, nodes)
    IN  /\ \A id \in DOMAIN nodes :
             pos[id].y = DepthOf(id, nodes) * (NODE_H + V_GAP)
        /\ \A k \in 1..Len(leaves) : pos[leaves[k]].x = (k - 1) * (NODE_W + H_GAP)
        /\ \A id \in DOMAIN nodes :
             Len(nodes[id].childIds) > 0 =>
               LET below == LeavesBelow(id, nodes)
                   xs == {pos[below[k]].x : k \in 1..Len(below)}
                   least == CHOOSE x \in xs : \A other \in xs : x <= other
                   greatest == CHOOSE x \in xs : \A other \in xs : x >= other
               IN  2 * pos[id].x = least + greatest

\* C29: in the layout of a well-formed tree two distinct nodes at the
\* same depth have x coordinates at least nodeWidth + hGap apart, so no
\* two cards share a position or overlap.
C29_SameDepthApart ==
  Laid =>
    LET nodes == state.tree.nodes
        pos == TreeViewLayout(state.tree).positions
    IN  \A a, b \in DOMAIN nodes :
          (a # b /\ DepthOf(a, nodes) = DepthOf(b, nodes))
          => \/ pos[a].x - pos[b].x >= NODE_W + H_GAP
             \/ pos[b].x - pos[a].x >= NODE_W + H_GAP

\* a parent with two children is laid out: the children are one slot apart
C29_Witness ==
  /\ Laid
  /\ \E a, b \in DOMAIN state.tree.nodes :
       /\ a # b
       /\ state.tree.nodes[a].parentId = state.tree.rootId
       /\ state.tree.nodes[b].parentId = state.tree.rootId
       /\ TreeViewLayout(state.tree).positions[a].x = 0
       /\ TreeViewLayout(state.tree).positions[b].x = NODE_W + H_GAP

\* C26: at any time at most one completion request is in flight: between
\* the sending of a message and the end of its stream no second message is
\* sent, however view changes, selections and sends interleave.
C26_OneRequestInFlight == Len(calls) <= 1

\* C27: the response of a completion is written to the node that was the
\* target when the message was sent, the node whose prompt was set to the
\* sent text, and to no other node, also when the selection changes while
\* the stream is in progress: a request is issued for the node whose
\* prompt is its last message; a chunk writes no node; the step that ends
\* the run changes the response of its target and nothing else of the
\* tree, and at the close of the stream the response is the streamed text.
C27_ResponseWrittenToTarget ==
  [][/\ Len(calls') = Len(calls) + 1
          => LET call == calls'[Len(calls')]
             IN  /\ HasTreeIn(state')
                 /\ call.targetId \in DOMAIN state'.tree.nodes
                 /\ state'.tree.nodes[call.targetId].prompt =
                      call.messages[Len(call.messages)].content
     /\ \A i \in 1..MaxCalls, chunk \in Chunks : Chunk(i, chunk) => state' = state
     /\ \A i \in 1..MaxCalls :
          (i \in DOMAIN calls /\ EndsCall(i) /\ HasTree)
          => LET target == calls[i].targetId
                 nodes == state.tree.nodes
             IN  /\ HasTreeIn(state')
                 /\ DOMAIN state'.tree.nodes = DOMAIN nodes
                 /\ \A id \in DOMAIN nodes \ {target} :
                      state'.tree.nodes[id] = nodes[id]
                 /\ target \in DOMAIN nodes
                      => /\ [state'.tree.nodes[target] EXCEPT
                               !.response = nodes[target].response] = nodes[target]
                         /\ StreamClose(i)
                              => state'.tree.nodes[target].response = calls[i].fullText
                 /\ state'.tree.rootId = state.tree.rootId
                 /\ state'.selectedNodeId = state.selectedNodeId]_vars

\* a stream has delivered text for a node, while another node has been
\* selected in the same PathView
C27_Witness ==
  /\ Mounted(state)
  /\ \E i \in DOMAIN calls :
       /\ calls[i].live
       /\ calls[i].phase = "reading"
       /\ calls[i].fullText # ""
       /\ calls[i].targetId \in DOMAIN state.tree.nodes
       /\ calls[i].targetId # state.selectedNodeId

\* C28: a completion that ends after an import has replaced the tree
\* changes no node of the imported tree, because its target is no id of
\* that tree: an import leaves the target of every request in flight out
\* of the tree, a target that is out of the tree stays out of it while its
\* request is in flight, and the end of such a request leaves the state
\* as it is.
C28_StaleCompletionWritesNothing ==
  [][/\ \A tree \in ChatTrees :
          Import(tree)
          => \A i \in DOMAIN calls : calls[i].targetId \notin DOMAIN state'.tree.nodes
     /\ \A i \in 1..MaxCalls :
          (/\ i \in DOMAIN calls
           /\ HasTree
           /\ calls[i].targetId \notin DOMAIN state.tree.nodes)
          => /\ EndsCall(i) => state' = state
             /\ HasTreeIn(state')
             /\ calls[i].targetId \notin DOMAIN state'.tree.nodes]_vars

====
